---- MODULE Spec2Model ----
(***************************************************************************)
(* Response cache of the vehicle catalog API (src/src/cache_manager.py)    *)
(* together with the handlers that read through it and the handlers that   *)
(* write the catalog (src/src/routes/vehicles_cached.py, uploads.py,       *)
(* cdn_uploads.py).                                                        *)
(*                                                                         *)
(* The cache backend is Flask-Caching's SimpleCache: a dict, in insertion  *)
(* order, of key -> (expires, value).  The MD5 digest of the key string is *)
(* modelled as an injective function of the string it digests.             *)
(***************************************************************************)
EXTENDS Integers, Sequences, FiniteSets, TLC

VARIABLES
    catalog,    \* the vehicles table: id -> row
    store,      \* SimpleCache._cache: sequence of entries, in insertion order
    threshold,  \* SimpleCache._threshold (CACHE_THRESHOLD of the environment)
    now,        \* time.time()
    last,       \* the most recent request and what it did (history)
    served,     \* how many requests have been served
    threads,    \* requests in flight, for the interleaved specification
    reqs,       \* the requests of the last two decorated calls (history)
    token,      \* the Authorization the client presents with its requests
    login_attempts, \* auth.login_attempts: client IP -> times of recorded attempts
    verified    \* client IP -> times its logins reached credential verification (history)

vars == <<catalog, store, threshold, now, last, served, threads, reqs, token,
          login_attempts, verified>>

(***************************** bounds **************************************)
MaxVehicles == 2      \* rows the vehicles table can hold
MaxRev == 1           \* committed field updates per vehicle
MaxImages == 1        \* images per vehicle
MaxTicks == 2         \* clock steps
MaxRequests == 4      \* requests served in one run
NumThreads == 2       \* requests the server handles at the same time
MaxKeyCalls == 2      \* decorated calls in a run that compares cache keys
MaxThreshold == 2     \* largest CACHE_THRESHOLD of a run that fills the store
MaxLogins == 6        \* login requests in one run
MaxElapse == 3        \* half windows of time that pass in a run with logins

(************************ program constants ********************************)
CACHE_THRESHOLD == 500
LIST_TIMEOUT == 3600
DETAIL_TIMEOUT == 7200
SEARCH_TIMEOUT == 1800
HOOK_TIMEOUT == 3600
MAX_ATTEMPTS == 5
WINDOW_MINUTES == 15
WARM_TIMEOUT == 3600

TickLen == LIST_TIMEOUT
Ids == 1..MaxVehicles
\* The client addresses login requests come from
ClientIps == {"10.0.0.1", "10.0.0.2"}

(***************************** the catalog *********************************)
NoVehicle == [exists |-> FALSE, is_active |-> FALSE, rev |-> 0, imagens |-> 0]
NewVehicle == [exists |-> TRUE, is_active |-> TRUE, rev |-> 0, imagens |-> 0]

\* What a response says about one vehicle; Absent when it is not part of it.
Absent == [present |-> FALSE, rev |-> 0, imagens |-> 0]
to_dict(v) == [present |-> TRUE, rev |-> v.rev, imagens |-> v.imagens]
EmptyBody == [i \in Ids |-> Absent]

Visible(cat, i) == cat[i].exists /\ cat[i].is_active

\* Vehicle.query.filter_by(is_active=True) ... [vehicle.to_dict() for ...]
ActiveList(cat) == [i \in Ids |-> IF Visible(cat, i) THEN to_dict(cat[i]) ELSE Absent]
AnyActive(cat) == \E i \in Ids : Visible(cat, i)

\* Vehicle.query.filter_by(id=vehicle_id, is_active=True).first() ... to_dict()
OneVehicle(cat, id) ==
    [i \in Ids |-> IF i = id /\ Visible(cat, i) THEN to_dict(cat[i]) ELSE Absent]

\* group_by(categoria) with count(id): only which vehicles are active counts
CategoryCounts(cat) ==
    [i \in Ids |-> IF Visible(cat, i) THEN [present |-> TRUE, rev |-> 0, imagens |-> 0]
                                      ELSE Absent]

(************************** values of Python *******************************)
\* A value a wrapped function returns: its shape, its payload and, for a
\* (body, status) pair or a response object, the status.
Value(shape, body, status) == [shape |-> shape, body |-> body, status |-> status]
None == Value("None", EmptyBody, 0)

FalsyShapes == {"None", "EmptyList", "EmptyDict", "Zero", "EmptyStr"}
TruthyShapes == {"List", "Dict", "Tuple", "Response"}
Shapes == FalsyShapes \cup TruthyShapes

\* bool(result)
Truthy(result) == result.shape \notin FalsyShapes
\* isinstance(result, (list, dict))
IsListOrDict(result) == result.shape \in {"List", "Dict", "EmptyList", "EmptyDict"}
\* hasattr(result, 'status_code'): a response object has it, a tuple has not
HasStatusCode(result) == result.shape = "Response"

(***************************** cache keys **********************************)
\* "|".join(parts)
RECURSIVE Join(_)
Join(parts) ==
    IF Len(parts) = 0 THEN ""
    ELSE IF Len(parts) = 1 THEN parts[1]
    ELSE parts[1] \o "|" \o Join(Tail(parts))

\* The keyword names the calls of the model use, in the order sorted() gives.
KwOrder == <<"id", "vehicle_id">>
KwRank(name) == CHOOSE r \in 1..Len(KwOrder) : KwOrder[r] = name

\* Variant: the keyword pairs are joined in the order the caller passed them
SortedItems_call_order(kwargs) == kwargs

\* sorted(kwargs.items()): by keyword name
RECURSIVE SortedItems(_)
SortedItems(kwargs) ==
    IF Len(kwargs) = 0 THEN <<>>
    ELSE LET m == CHOOSE i \in 1..Len(kwargs) :
                      \A j \in 1..Len(kwargs) : KwRank(kwargs[i][1]) <= KwRank(kwargs[j][1])
             rest == [j \in 1..(Len(kwargs) - 1) |-> IF j < m THEN kwargs[j] ELSE kwargs[j + 1]]
         IN  <<kwargs[m]>> \o SortedItems(rest)

\* hashlib.md5(key_string).hexdigest(): injective on the key strings of the model
md5_hexdigest(key_string) == key_string

\* A request: its path and query string, and the arguments the wrapped function
\* is called with (positional ones as str() renders them, keyword ones as
\* <<name, str(value)>> in call order).  in_request is FALSE outside a request.
Request(path, query, args, kwargs) ==
    [in_request |-> TRUE, path |-> path, query |-> query, args |-> args, kwargs |-> kwargs]
NoRequest(args, kwargs) ==
    [in_request |-> FALSE, path |-> "", query |-> "", args |-> args, kwargs |-> kwargs]

generate_cache_key(req) ==
    LET url_part == IF req.in_request THEN req.path \o "?" \o req.query ELSE ""
        kw == SortedItems(req.kwargs)
        key_parts == <<url_part>> \o req.args
                       \o [i \in 1..Len(kw) |-> kw[i][1] \o "=" \o kw[i][2]]
    IN  md5_hexdigest(Join(key_parts))

HasKw(req, name) == \E i \in 1..Len(req.kwargs) : req.kwargs[i][1] = name
KwValue(req, name) == req.kwargs[CHOOSE i \in 1..Len(req.kwargs) : req.kwargs[i][1] = name][2]

\* cache_vehicles_list: f"vehicles_list_{generate_cache_key(*args, **kwargs)}"
ListKey(req) == "vehicles_list_" \o generate_cache_key(req)

\* Variant: the keyword id= is looked at before vehicle_id=
DetailId_id_first(req) ==
    IF Len(req.args) > 0 THEN req.args[1]
    ELSE IF HasKw(req, "id") THEN KwValue(req, "id")
    ELSE IF HasKw(req, "vehicle_id") THEN KwValue(req, "vehicle_id")
    ELSE "None"

\* cache_vehicle_detail: the id is args[0], else vehicle_id=, else id=, else None
DetailId(req) ==
    IF Len(req.args) > 0 THEN req.args[1]
    ELSE IF HasKw(req, "vehicle_id") THEN KwValue(req, "vehicle_id")
    ELSE IF HasKw(req, "id") THEN KwValue(req, "id")
    ELSE "None"
DetailKey(req) == "vehicle_detail_" \o DetailId(req) \o "_" \o generate_cache_key(req)

CacheKey(dec, req) == IF dec = "cache_vehicle_detail" THEN DetailKey(req) ELSE ListKey(req)

(************************ SimpleCache: the store ***************************)
Entry(key, expires, value) == [key |-> key, expires |-> expires, value |-> value]
HasKey(s, key) == \E i \in 1..Len(s) : s[i].key = key
IndexOf(s, key) == CHOOSE i \in 1..Len(s) : s[i].key = key

\* Variant: the entry still counts at the instant it expires
Live_inclusive(e, t) == e.expires = 0 \/ e.expires >= t
\* An entry counts as live while expires == 0 or expires > time()
Live(e, t) == e.expires = 0 \/ e.expires > t

\* cache.get(key): the value, or None when the key is absent or expired
CacheGet(s, key, t) ==
    IF HasKey(s, key) /\ Live(s[IndexOf(s, key)], t) THEN s[IndexOf(s, key)].value ELSE None
\* cached_result is not None
IsHit(s, key, t) == CacheGet(s, key, t) # None

\* _remove_expired(now)
RemoveExpired(s, t) == SelectSeq(s, LAMBDA e : ~(e.expires < t))

\* _remove_older(): drop entries, smallest expires first, until not over threshold
RECURSIVE RemoveOlder(_, _)
RemoveOlder(s, thr) ==
    IF Len(s) = 0 THEN s
    ELSE LET m == CHOOSE i \in 1..Len(s) :
                      /\ \A j \in 1..Len(s) : s[i].expires <= s[j].expires
                      /\ \A j \in 1..(i - 1) : s[j].expires > s[i].expires
             rest == [j \in 1..(Len(s) - 1) |-> IF j < m THEN s[j] ELSE s[j + 1]]
         IN  IF Len(rest) > thr THEN RemoveOlder(rest, thr) ELSE rest

\* _prune(): only when the dict is already over the threshold
Prune(s, t, thr) ==
    LET s1 == IF Len(s) > thr THEN RemoveExpired(s, t) ELSE s
    IN  IF Len(s1) > thr THEN RemoveOlder(s1, thr) ELSE s1

\* cache.set(key, value, timeout): prune, then insert or overwrite in place
CacheSet(s, key, value, timeout, t, thr) ==
    LET expires == IF timeout > 0 THEN t + timeout ELSE 0
        p == Prune(s, t, thr)
    IN  IF HasKey(p, key)
        THEN [p EXCEPT ![IndexOf(p, key)] = Entry(key, expires, value)]
        ELSE Append(p, Entry(key, expires, value))

\* cache.clear()
CacheClear(s) == <<>>

\* The argument of invalidate_vehicle_cache: None, or an integer (0 included).
PyNone == [is_none |-> TRUE, n |-> 0]
PyInt(n) == [is_none |-> FALSE, n |-> n]
\* "if vehicle_id:"
TruthyId(vehicle_id) == ~vehicle_id.is_none /\ vehicle_id.n # 0

\* Variant: with a vehicle id, deletes the two patterns as if they were keys
\* (which removes nothing) instead of clearing
invalidate_vehicle_cache_scoped(s, vehicle_id) ==
    IF TruthyId(vehicle_id)
    THEN SelectSeq(s, LAMBDA e : e.key \notin {"vehicle_detail_" \o ToString(vehicle_id.n) \o "_*",
                                               "vehicles_list_*"})
    ELSE CacheClear(s)

\* invalidate_vehicle_cache(vehicle_id): SimpleCache has no wildcard delete, so
\* both branches call cache.clear().
invalidate_vehicle_cache(s, vehicle_id) ==
    IF TruthyId(vehicle_id) THEN CacheClear(s) ELSE CacheClear(s)

(************************* the wrapped functions ***************************)
Endpoints == {"get_vehicles", "get_vehicle", "search_vehicles", "get_vehicles_by_category"}

\* A call of a decorated function: the function, the decorator and timeout it is
\* wrapped with, the request it runs in and the vehicle it is about (0: none).
Call(fn, dec, timeout, req, id) ==
    [fn |-> fn, dec |-> dec, timeout |-> timeout, req |-> req, id |-> id]

\* @cache_active_vehicles(timeout=3600) def get_vehicles()
ListQueries == {"", "page=1"}
GetVehiclesCalls ==
    {Call("get_vehicles", "cache_vehicles_list", LIST_TIMEOUT,
          Request("/api/vehicles", q, <<>>, <<>>), 0) : q \in ListQueries}
\* @cache_vehicle_detail(timeout=7200) def get_vehicle(vehicle_id): Flask passes
\* the URL variable by keyword
GetVehicleCalls ==
    {Call("get_vehicle", "cache_vehicle_detail", DETAIL_TIMEOUT,
          Request("/api/vehicles/" \o ToString(i), "", <<>>, <<<<"vehicle_id", ToString(i)>>>>), i)
       : i \in Ids}
\* @cache_vehicles_search(timeout=1800) def search_vehicles()
SearchCalls ==
    {Call("search_vehicles", "cache_vehicles_list", SEARCH_TIMEOUT,
          Request("/api/vehicles/search", "q=a", <<>>, <<>>), 0)}
\* @cache_vehicles_by_category(timeout=7200) def get_vehicles_by_category()
CategoryCalls ==
    {Call("get_vehicles_by_category", "cache_vehicles_list", DETAIL_TIMEOUT,
          Request("/api/vehicles/categories", "", <<>>, <<>>), 0)}
EndpointCalls == GetVehiclesCalls \cup GetVehicleCalls \cup SearchCalls \cup CategoryCalls

\* Any other function f the two decorators wrap, with their default timeouts:
\* @cache_vehicles_list() def f(), @cache_vehicle_detail() def f(vehicle_id)
GenericCalls ==
    {Call("f", "cache_vehicles_list", LIST_TIMEOUT, Request("/f", "", <<>>, <<>>), 0)}
    \cup {Call("f", "cache_vehicle_detail", DETAIL_TIMEOUT,
               Request("/f", "", <<ToString(i)>>, <<>>), i) : i \in {1}}
Calls == EndpointCalls \cup GenericCalls

\* What the wrapped function does when it runs: an endpoint catches every
\* exception and answers (jsonify(...), status); f returns a value of any shape,
\* or raises.
Outcome(raises, shape, status) == [raises |-> raises, shape |-> shape, status |-> status]
FStatuses == {200}
Outcomes(c) ==
    IF c.fn \in Endpoints
    THEN {Outcome(r, "Tuple", 200) : r \in BOOLEAN}
    ELSE {Outcome(TRUE, "None", 0)}
         \cup {Outcome(FALSE, sh, 0) : sh \in FalsyShapes \cup {"List", "Dict"}}
         \cup {Outcome(FALSE, sh, st) : sh \in {"Tuple", "Response"}, st \in FStatuses}

\* The endpoint bodies: always a (response, status) pair
get_vehicles(cat, failed) ==
    IF failed THEN Value("Tuple", EmptyBody, 500) ELSE Value("Tuple", ActiveList(cat), 200)
get_vehicle(cat, id, failed) ==
    IF failed THEN Value("Tuple", EmptyBody, 500)
    ELSE IF ~Visible(cat, id) THEN Value("Tuple", EmptyBody, 404)
    ELSE Value("Tuple", OneVehicle(cat, id), 200)
search_vehicles(cat, failed) ==
    IF failed THEN Value("Tuple", EmptyBody, 500) ELSE Value("Tuple", ActiveList(cat), 200)
get_vehicles_by_category(cat, failed) ==
    IF failed THEN Value("Tuple", EmptyBody, 500) ELSE Value("Tuple", CategoryCounts(cat), 200)

\* f(*args, **kwargs): reads the catalog and returns a value of the given shape
f(cat, id, out) ==
    IF out.shape \in FalsyShapes THEN Value(out.shape, EmptyBody, 0)
    ELSE Value(out.shape, IF id = 0 THEN ActiveList(cat) ELSE OneVehicle(cat, id), out.status)

\* result = f(*args, **kwargs) of the decorators, for a call that does not raise
Run(c, cat, out) ==
    CASE c.fn = "get_vehicles" -> get_vehicles(cat, out.raises)
      [] c.fn = "get_vehicle" -> get_vehicle(cat, c.id, out.raises)
      [] c.fn = "search_vehicles" -> search_vehicles(cat, out.raises)
      [] c.fn = "get_vehicles_by_category" -> get_vehicles_by_category(cat, out.raises)
      [] OTHER -> f(cat, c.id, out)
\* Does the exception leave the wrapped function?
Raises(c, out) == c.fn \notin Endpoints /\ out.raises

(****************************** decorators *********************************)
\* Variant: the truthiness test is left out
Cacheable_empty_too(result) == IsListOrDict(result) \/ HasStatusCode(result)
\* Variant: any sequence counts, a (body, status) tuple included
Cacheable_tuple_too(result) ==
    Truthy(result) /\ (IsListOrDict(result) \/ result.shape = "Tuple" \/ HasStatusCode(result))

\* "if result and (isinstance(result, (list, dict)) or hasattr(result, 'status_code'))"
Cacheable(result) == Truthy(result) /\ (IsListOrDict(result) \/ HasStatusCode(result))

\* The store after a miss whose wrapped function returned result
StoreAfterMiss(s, key, result, timeout, t, thr) ==
    IF Cacheable(result) THEN CacheSet(s, key, result, timeout, t, thr) ELSE s

\* Variant: the call of f is wrapped in try/except and the error answer is cached
decorated_function_negative(c, out, s, cat, t, thr) ==
    LET cache_key == CacheKey(c.dec, c.req)
        cached_result == CacheGet(s, cache_key, t)
        result == IF Raises(c, out) THEN Value("Response", EmptyBody, 500) ELSE Run(c, cat, out)
    IN  IF cached_result # None
        THEN [key |-> cache_key, hit |-> TRUE, invoked |-> FALSE, raised |-> FALSE,
              result |-> cached_result, store |-> s]
        ELSE [key |-> cache_key, hit |-> FALSE, invoked |-> TRUE, raised |-> FALSE,
              result |-> result,
              store |-> StoreAfterMiss(s, cache_key, result, c.timeout, t, thr)]

\* decorated_function(*args, **kwargs) of cache_vehicles_list and of
\* cache_vehicle_detail (the two differ in the key only): what the caller gets
\* and the store it leaves.
decorated_function(c, out, s, cat, t, thr) ==
    LET cache_key == CacheKey(c.dec, c.req)
        cached_result == CacheGet(s, cache_key, t)
    IN  IF cached_result # None
        THEN [key |-> cache_key, hit |-> TRUE, invoked |-> FALSE, raised |-> FALSE,
              result |-> cached_result, store |-> s]
        ELSE IF Raises(c, out)
        THEN [key |-> cache_key, hit |-> FALSE, invoked |-> TRUE, raised |-> TRUE,
              result |-> None, store |-> s]
        ELSE LET result == Run(c, cat, out)
             IN  [key |-> cache_key, hit |-> FALSE, invoked |-> TRUE, raised |-> FALSE,
                  result |-> result,
                  store |-> StoreAfterMiss(s, cache_key, result, c.timeout, t, thr)]

(************************ HTTP caching headers *****************************)
\* The view functions of the vehicles blueprint, each name split into its words
EndpointWords(op) ==
    CASE op = "get_vehicles" -> <<"get", "vehicles">>
      [] op = "get_vehicle" -> <<"get", "vehicle">>
      [] op = "search_vehicles" -> <<"search", "vehicles">>
      [] op = "get_vehicles_by_category" -> <<"get", "vehicles", "by", "category">>
      [] op = "get_admin_vehicles" -> <<"get", "admin", "vehicles">>
      [] op = "create_vehicle" -> <<"create", "vehicle">>
      [] op = "update_vehicle" -> <<"update", "vehicle">>
      [] op = "delete_vehicle" -> <<"delete", "vehicle">>
      [] op = "restore_vehicle" -> <<"restore", "vehicle">>
      [] op = "get_dashboard_stats" -> <<"get", "dashboard", "stats">>
      [] op = "search_admin_vehicles" -> <<"search", "admin", "vehicles">>
      [] op = "clear_cache" -> <<"clear", "cache">>
      [] op = "get_cache_stats" -> <<"get", "cache", "stats">>
      [] OTHER -> <<>>
VehiclesBlueprint ==
    {"get_vehicles", "get_vehicle", "search_vehicles", "get_vehicles_by_category",
     "get_admin_vehicles", "create_vehicle", "update_vehicle", "delete_vehicle",
     "restore_vehicle", "get_dashboard_stats", "search_admin_vehicles", "clear_cache",
     "get_cache_stats"}
\* request.endpoint: "<blueprint name>.<function name>", as words
RequestEndpoint(op) == <<"vehicles">> \o EndpointWords(op)
\* word in request.endpoint
InEndpoint(word, endpoint) == \E i \in 1..Len(endpoint) : endpoint[i] = word

NoHeaders == [cache_control_public |-> FALSE, max_age |-> 0, expires |-> 0]

\* add_cache_headers(response, timeout)
add_cache_headers(status_code, timeout, t) ==
    IF status_code = 200
    THEN [cache_control_public |-> TRUE, max_age |-> timeout, expires |-> t + timeout]
    ELSE NoHeaders

\* @vehicles_bp.after_request add_cache_headers_to_response(response)
add_cache_headers_to_response(endpoint, status_code, t) ==
    IF Len(endpoint) > 0 /\ ~InEndpoint("admin", endpoint)
    THEN IF status_code = 200
         THEN IF InEndpoint("vehicles", endpoint)
              THEN add_cache_headers(status_code, HOOK_TIMEOUT, t)
              ELSE NoHeaders
         ELSE NoHeaders
    ELSE NoHeaders

\* The caching headers of the response to a request served by op: the hook
\* runs on the responses of the vehicles blueprint only
ResponseHeaders(op, status_code, t) ==
    IF op \in VehiclesBlueprint
    THEN add_cache_headers_to_response(RequestEndpoint(op), status_code, t)
    ELSE NoHeaders

(******************************* history ***********************************)
\* The most recent request: which handler ran (op); for a decorated read its key,
\* whether it was a hit, whether the wrapped function ran (invoked), what the
\* wrapped function itself did (f_raised, f_result), and what the caller of the
\* decorated function got (raised, result); for a write whether it committed,
\* whether it invalidated, and how many entries the store held before it; at is
\* the time it ran; headers are the caching headers of its response; fault is the cache operation that raised during it, if any.
NoLast ==
    [op |-> "none", dec |-> "", id |-> 0, key |-> "", timeout |-> 0, hit |-> FALSE,
     invoked |-> FALSE, f_raised |-> FALSE, f_result |-> None, raised |-> FALSE,
     result |-> None, status |-> 0, committed |-> FALSE, invalidated |-> FALSE,
     before |-> 0, at |-> 0, fault |-> "none", headers |-> NoHeaders, ip |-> ""]

ReadRecord(c, r, out) ==
    [op |-> c.fn, dec |-> c.dec, id |-> c.id, key |-> r.key, timeout |-> c.timeout,
     hit |-> r.hit, invoked |-> r.invoked,
     f_raised |-> r.invoked /\ Raises(c, out),
     f_result |-> IF r.invoked /\ ~Raises(c, out) THEN Run(c, catalog, out) ELSE None,
     raised |-> r.raised, result |-> r.result,
     status |-> r.result.status, committed |-> FALSE, invalidated |-> FALSE,
     before |-> 0, at |-> now, fault |-> "none",
     headers |-> ResponseHeaders(c.fn, r.result.status, now), ip |-> ""]

WriteRecord(op, id, status, committed, invalidated) ==
    [op |-> op, dec |-> "", id |-> id, key |-> "", timeout |-> 0, hit |-> FALSE,
     invoked |-> FALSE, f_raised |-> FALSE, f_result |-> None, raised |-> FALSE,
     result |-> None, status |-> status, committed |-> committed,
     invalidated |-> invalidated, before |-> Len(store), at |-> now, fault |-> "none",
     headers |-> ResponseHeaders(op, status, now), ip |-> ""]

(************************* startup: warm_cache *****************************)
\* warm_cache() runs in create_app outside any request: it stores the list of
\* active vehicles' dicts, empty or not, for an hour.
WarmKey == "vehicles_list_" \o generate_cache_key(NoRequest(<<"active=True">>, <<>>))
WarmValue(cat) == Value(IF AnyActive(cat) THEN "List" ELSE "EmptyList", ActiveList(cat), 0)
warm_cache(s, cat, t, thr) == CacheSet(s, WarmKey, WarmValue(cat), WARM_TIMEOUT, t, thr)

\* The vehicles table found at startup: empty, or holding one active vehicle
InitialCatalogs ==
    {[i \in Ids |-> NoVehicle], [i \in Ids |-> IF i = 1 THEN NewVehicle ELSE NoVehicle]}

Init ==
    /\ catalog \in InitialCatalogs
    /\ threshold = CACHE_THRESHOLD
    /\ now = 0
    /\ store = warm_cache(<<>>, catalog, 0, threshold)
    /\ last = NoLast
    /\ served = 0
    /\ threads = <<>>
    /\ reqs = <<>>
    /\ token = "none"
    /\ login_attempts = [ip \in ClientIps |-> <<>>]
    /\ verified = [ip \in ClientIps |-> <<>>]

\* A request is served: the count of requests grows
Serve == served < MaxRequests /\ served' = served + 1

(*************************** decorated reads *******************************)
\* One request served by a decorated function
DecoratedCall(c, out) ==
    LET r == decorated_function(c, out, store, catalog, now, threshold)
    IN  /\ Serve
        /\ store' = r.store
        /\ last' = ReadRecord(c, r, out)
        /\ UNCHANGED <<catalog, threshold, reqs, token, login_attempts, verified, now, threads>>

(******************************* writes ************************************)
WriteOutcomes == {"ok", "invalid", "commit_error"}
NextId(cat) == Cardinality({i \in Ids : cat[i].exists}) + 1

\* Variant: the invalidation after the commit is forgotten
create_vehicle_no_invalidate(outcome) ==
    /\ Serve
    /\ UNCHANGED <<threshold, reqs, token, login_attempts, verified, now, threads, store>>
    /\ IF outcome = "invalid"
       THEN /\ last' = WriteRecord("create_vehicle", 0, 400, FALSE, FALSE)
            /\ UNCHANGED catalog
       ELSE IF outcome = "commit_error"
       THEN /\ last' = WriteRecord("create_vehicle", 0, 500, FALSE, FALSE)
            /\ UNCHANGED catalog
       ELSE /\ NextId(catalog) \in Ids
            /\ catalog' = [catalog EXCEPT ![NextId(catalog)] = NewVehicle]
            /\ last' = WriteRecord("create_vehicle", NextId(catalog), 201, TRUE, FALSE)

\* POST /vehicles
create_vehicle(outcome) ==
    /\ Serve
    /\ UNCHANGED <<threshold, reqs, token, login_attempts, verified, now, threads>>
    /\ IF outcome = "invalid"
       THEN /\ last' = WriteRecord("create_vehicle", 0, 400, FALSE, FALSE)
            /\ UNCHANGED <<catalog, store>>
       ELSE IF outcome = "commit_error"
       THEN /\ last' = WriteRecord("create_vehicle", 0, 500, FALSE, FALSE)
            /\ UNCHANGED <<catalog, store>>
       ELSE /\ NextId(catalog) \in Ids
            /\ catalog' = [catalog EXCEPT ![NextId(catalog)] = NewVehicle]
            /\ store' = invalidate_vehicle_cache(store, PyNone)
            /\ last' = WriteRecord("create_vehicle", NextId(catalog), 201, TRUE, TRUE)

\* Variant: the cache is invalidated before db.session.commit()
update_vehicle_invalidate_first(id, outcome) ==
    /\ Serve
    /\ UNCHANGED <<threshold, reqs, token, login_attempts, verified, now, threads>>
    /\ IF ~catalog[id].exists
       THEN /\ last' = WriteRecord("update_vehicle", id, 404, FALSE, FALSE)
            /\ UNCHANGED <<catalog, store>>
       ELSE IF outcome = "invalid"
       THEN /\ last' = WriteRecord("update_vehicle", id, 400, FALSE, FALSE)
            /\ UNCHANGED <<catalog, store>>
       ELSE IF outcome = "commit_error"
       THEN /\ store' = invalidate_vehicle_cache(store, PyInt(id))
            /\ last' = WriteRecord("update_vehicle", id, 500, FALSE, TRUE)
            /\ UNCHANGED catalog
       ELSE /\ catalog[id].rev < MaxRev
            /\ catalog' = [catalog EXCEPT ![id].rev = @ + 1]
            /\ store' = invalidate_vehicle_cache(store, PyInt(id))
            /\ last' = WriteRecord("update_vehicle", id, 200, TRUE, TRUE)

\* PUT /vehicles/<id>
update_vehicle(id, outcome) ==
    /\ Serve
    /\ UNCHANGED <<threshold, reqs, token, login_attempts, verified, now, threads>>
    /\ IF ~catalog[id].exists
       THEN /\ last' = WriteRecord("update_vehicle", id, 404, FALSE, FALSE)
            /\ UNCHANGED <<catalog, store>>
       ELSE IF outcome = "invalid"
       THEN /\ last' = WriteRecord("update_vehicle", id, 400, FALSE, FALSE)
            /\ UNCHANGED <<catalog, store>>
       ELSE IF outcome = "commit_error"
       THEN /\ last' = WriteRecord("update_vehicle", id, 500, FALSE, FALSE)
            /\ UNCHANGED <<catalog, store>>
       ELSE /\ catalog[id].rev < MaxRev
            /\ catalog' = [catalog EXCEPT ![id].rev = @ + 1]
            /\ store' = invalidate_vehicle_cache(store, PyInt(id))
            /\ last' = WriteRecord("update_vehicle", id, 200, TRUE, TRUE)

\* DELETE /vehicles/<id> (is_active = False) and
\* PUT /admin/vehicles/<id>/restore (is_active = True)
\* Variant: the flag is committed but the cache is left as it was
SetActive_keeps_cache(op, id, active, outcome) ==
    /\ Serve
    /\ UNCHANGED <<threshold, reqs, token, login_attempts, verified, now, threads>>
    /\ IF ~catalog[id].exists
       THEN /\ last' = WriteRecord(op, id, 404, FALSE, FALSE)
            /\ UNCHANGED <<catalog, store>>
       ELSE IF outcome = "commit_error"
       THEN /\ last' = WriteRecord(op, id, 500, FALSE, FALSE)
            /\ UNCHANGED <<catalog, store>>
       ELSE /\ catalog' = [catalog EXCEPT ![id].is_active = active]
            /\ store' = store
            /\ last' = WriteRecord(op, id, 200, TRUE, FALSE)

SetActive(op, id, active, outcome) ==
    /\ Serve
    /\ UNCHANGED <<threshold, reqs, token, login_attempts, verified, now, threads>>
    /\ IF ~catalog[id].exists
       THEN /\ last' = WriteRecord(op, id, 404, FALSE, FALSE)
            /\ UNCHANGED <<catalog, store>>
       ELSE IF outcome = "commit_error"
       THEN /\ last' = WriteRecord(op, id, 500, FALSE, FALSE)
            /\ UNCHANGED <<catalog, store>>
       ELSE /\ catalog' = [catalog EXCEPT ![id].is_active = active]
            /\ store' = invalidate_vehicle_cache(store, PyInt(id))
            /\ last' = WriteRecord(op, id, 200, TRUE, TRUE)

delete_vehicle(id, outcome) == SetActive("delete_vehicle", id, FALSE, outcome)
restore_vehicle(id, outcome) == SetActive("restore_vehicle", id, TRUE, outcome)

\* POST /upload and POST /cdn-upload: a VehicleImage row is added and the
\* vehicle's imagens list grows, then commit; the cache is not touched.
AddImage(op, id, outcome) ==
    /\ Serve
    /\ UNCHANGED <<threshold, reqs, token, login_attempts, verified, now, threads, store>>
    /\ IF ~catalog[id].exists
       THEN /\ last' = WriteRecord(op, id, 404, FALSE, FALSE)
            /\ UNCHANGED catalog
       ELSE IF outcome = "invalid"
       THEN /\ last' = WriteRecord(op, id, 400, FALSE, FALSE)
            /\ UNCHANGED catalog
       ELSE IF outcome = "commit_error"
       THEN /\ last' = WriteRecord(op, id, 500, FALSE, FALSE)
            /\ UNCHANGED catalog
       ELSE /\ catalog[id].imagens < MaxImages
            /\ catalog' = [catalog EXCEPT ![id].imagens = @ + 1]
            /\ last' = WriteRecord(op, id, 201, TRUE, FALSE)

upload_file(id, outcome) == AddImage("upload_file", id, outcome)
cdn_upload_file(id, outcome) == AddImage("cdn_upload_file", id, outcome)

\* DELETE /uploads/<image_id> and DELETE /cdn-uploads/<image_id>: the image is
\* taken off its vehicle's imagens list and deleted, then commit; the cache is
\* not touched.  id is the vehicle the image belongs to.
RemoveImage(op, id, outcome) ==
    /\ Serve
    /\ UNCHANGED <<threshold, reqs, token, login_attempts, verified, now, threads, store>>
    /\ IF ~(catalog[id].exists /\ catalog[id].imagens > 0)
       THEN /\ last' = WriteRecord(op, id, 404, FALSE, FALSE)
            /\ UNCHANGED catalog
       ELSE IF outcome = "commit_error"
       THEN /\ last' = WriteRecord(op, id, 500, FALSE, FALSE)
            /\ UNCHANGED catalog
       ELSE /\ catalog' = [catalog EXCEPT ![id].imagens = @ - 1]
            /\ last' = WriteRecord(op, id, 200, TRUE, FALSE)

delete_image(id, outcome) == RemoveImage("delete_image", id, outcome)
delete_cdn_image(id, outcome) == RemoveImage("delete_cdn_image", id, outcome)

\* POST /admin/cache/clear
clear_cache ==
    /\ Serve
    /\ store' = invalidate_vehicle_cache(store, PyNone)
    /\ last' = WriteRecord("clear_cache", 0, 200, FALSE, TRUE)
    /\ UNCHANGED <<catalog, threshold, reqs, token, login_attempts, verified, now, threads>>

\* Time passes between requests
Tick ==
    /\ now < MaxTicks * TickLen
    /\ now' = now + TickLen
    /\ UNCHANGED <<catalog, store, threshold, reqs, token, login_attempts, verified, last, served, threads>>

\* A direct call of invalidate_vehicle_cache, with None, 0 or a vehicle id
InvalidateCall(vehicle_id) ==
    /\ Serve
    /\ store' = invalidate_vehicle_cache(store, vehicle_id)
    /\ last' = WriteRecord("invalidate_vehicle_cache", vehicle_id.n, 0, FALSE, TRUE)
    /\ UNCHANGED <<catalog, threshold, reqs, token, login_attempts, verified, now, threads>>

InvalidateArgs == {PyNone, PyInt(0), PyInt(1)}

(****** the application as wired: the endpoints, one request at a time ******)
Next ==
    \/ \E c \in EndpointCalls : \E out \in Outcomes(c) : DecoratedCall(c, out)
    \/ \E outcome \in WriteOutcomes : create_vehicle(outcome)
    \/ \E id \in Ids, outcome \in WriteOutcomes : update_vehicle(id, outcome)
    \/ \E id \in Ids, outcome \in {"ok", "commit_error"} : delete_vehicle(id, outcome)
    \/ \E id \in Ids, outcome \in {"ok", "commit_error"} : restore_vehicle(id, outcome)
    \/ \E id \in Ids, outcome \in WriteOutcomes : upload_file(id, outcome)
    \/ \E id \in Ids, outcome \in WriteOutcomes : cdn_upload_file(id, outcome)
    \/ \E id \in Ids, outcome \in {"ok", "commit_error"} : delete_image(id, outcome)
    \/ \E id \in Ids, outcome \in {"ok", "commit_error"} : delete_cdn_image(id, outcome)
    \/ clear_cache
    \/ Tick

Spec == Init /\ [][Next]_vars

(**** the decorators around any function f, with the catalog being written ****)
NextWrapped ==
    \/ \E c \in GenericCalls : \E out \in Outcomes(c) : DecoratedCall(c, out)
    \/ \E vehicle_id \in InvalidateArgs : InvalidateCall(vehicle_id)
    \/ create_vehicle("ok")
    \/ \E id \in Ids : upload_file(id, "ok")
    \/ Tick

SpecWrapped == Init /\ [][NextWrapped]_vars

(******** requests handled concurrently: each handler step by step ********)
\* A request in flight: where its handler stands, the decorated call it serves
\* or the vehicle it writes, and the result it has computed.
NoCall == Call("", "", 0, Request("", "", <<>>, <<>>), 0)
Idle == [pc |-> "idle", c |-> NoCall, result |-> None, vehicle_id |-> PyNone]
Threads == 1..NumThreads

InitConcurrent ==
    /\ catalog \in InitialCatalogs
    /\ threshold = CACHE_THRESHOLD
    /\ now = 0
    /\ store = warm_cache(<<>>, catalog, 0, threshold)
    /\ last = NoLast
    /\ served = 0
    /\ threads = [t \in Threads |-> Idle]
    /\ reqs = <<>>
    /\ token = "none"
    /\ login_attempts = [ip \in ClientIps |-> <<>>]
    /\ verified = [ip \in ClientIps |-> <<>>]

\* cached_result = cache.get(cache_key): a hit returns at once, a miss goes on
ReadLookup(t, c) ==
    /\ threads[t].pc = "idle"
    /\ Serve
    /\ threads' = [threads EXCEPT ![t] =
                      IF IsHit(store, CacheKey(c.dec, c.req), now)
                      THEN Idle
                      ELSE [pc |-> "miss", c |-> c, result |-> None, vehicle_id |-> PyNone]]
    /\ UNCHANGED <<catalog, store, threshold, reqs, token, login_attempts, verified, now, last>>

\* result = f(*args, **kwargs): reads the catalog; f returns a dict here
ReadCompute(t) ==
    /\ threads[t].pc = "miss"
    /\ threads' = [threads EXCEPT ![t].pc = "computed",
                                  ![t].result = Run(threads[t].c, catalog, Outcome(FALSE, "Dict", 0))]
    /\ UNCHANGED <<catalog, store, threshold, reqs, token, login_attempts, verified, now, last, served>>

\* if result and (...): cache.set(cache_key, result, timeout=timeout); return result
ReadStore(t) ==
    /\ threads[t].pc = "computed"
    /\ store' = StoreAfterMiss(store, CacheKey(threads[t].c.dec, threads[t].c.req),
                               threads[t].result, threads[t].c.timeout, now, threshold)
    /\ threads' = [threads EXCEPT ![t] = Idle]
    /\ UNCHANGED <<catalog, threshold, reqs, token, login_attempts, verified, now, last, served>>

\* create_vehicle up to db.session.commit()
CreateCommit(t) ==
    /\ threads[t].pc = "idle"
    /\ Serve
    /\ NextId(catalog) \in Ids
    /\ catalog' = [catalog EXCEPT ![NextId(catalog)] = NewVehicle]
    /\ threads' = [threads EXCEPT ![t].pc = "committed", ![t].vehicle_id = PyNone]
    /\ UNCHANGED <<store, threshold, reqs, token, login_attempts, verified, now, last>>

\* update_vehicle up to db.session.commit()
UpdateCommit(t, id) ==
    /\ threads[t].pc = "idle"
    /\ Serve
    /\ catalog[id].exists /\ catalog[id].rev < MaxRev
    /\ catalog' = [catalog EXCEPT ![id].rev = @ + 1]
    /\ threads' = [threads EXCEPT ![t].pc = "committed", ![t].vehicle_id = PyInt(id)]
    /\ UNCHANGED <<store, threshold, reqs, token, login_attempts, verified, now, last>>

\* invalidate_vehicle_cache(...) after the commit, then the response
WriteInvalidate(t) ==
    /\ threads[t].pc = "committed"
    /\ store' = invalidate_vehicle_cache(store, threads[t].vehicle_id)
    /\ threads' = [threads EXCEPT ![t] = Idle]
    /\ UNCHANGED <<catalog, threshold, reqs, token, login_attempts, verified, now, last, served>>

NextConcurrent ==
    \/ \E t \in Threads, c \in GenericCalls : ReadLookup(t, c)
    \/ \E t \in Threads : ReadCompute(t)
    \/ \E t \in Threads : ReadStore(t)
    \/ \E t \in Threads : CreateCommit(t)
    \/ \E t \in Threads, id \in Ids : UpdateCommit(t, id)
    \/ \E t \in Threads : WriteInvalidate(t)

SpecConcurrent == InitConcurrent /\ [][NextConcurrent]_vars

(***************** the cache backend raising an exception *****************)
\* decorated_function when cache.get (fault "get") or cache.set (fault "set")
\* raises: neither call is inside a try, so the exception leaves the decorator
\* at that point.
decorated_function_backend_raises(c, out, fault, s, cat, t, thr) ==
    LET cache_key == CacheKey(c.dec, c.req)
        cached_result == CacheGet(s, cache_key, t)
    IN  IF fault = "get"
        THEN [key |-> cache_key, hit |-> FALSE, invoked |-> FALSE, raised |-> TRUE,
              result |-> None, store |-> s]
        ELSE IF cached_result # None
        THEN [key |-> cache_key, hit |-> TRUE, invoked |-> FALSE, raised |-> FALSE,
              result |-> cached_result, store |-> s]
        ELSE IF Raises(c, out)
        THEN [key |-> cache_key, hit |-> FALSE, invoked |-> TRUE, raised |-> TRUE,
              result |-> None, store |-> s]
        ELSE LET result == Run(c, cat, out)
             IN  IF Cacheable(result)
                 THEN [key |-> cache_key, hit |-> FALSE, invoked |-> TRUE, raised |-> TRUE,
                       result |-> None, store |-> s]
                 ELSE [key |-> cache_key, hit |-> FALSE, invoked |-> TRUE, raised |-> FALSE,
                       result |-> result, store |-> s]

BackendFaults == {"get", "set"}

\* One request served by a decorated function while the backend raises
FailingCall(c, out, fault) ==
    LET r == decorated_function_backend_raises(c, out, fault, store, catalog, now, threshold)
    IN  /\ Serve
        /\ store' = r.store
        /\ last' = [ReadRecord(c, r, out) EXCEPT !.fault = fault]
        /\ UNCHANGED <<catalog, threshold, reqs, token, login_attempts, verified, now, threads>>

\* Variant: the exception of cache.clear() leaves invalidate_vehicle_cache
invalidate_vehicle_cache_clear_raises_propagates(s, vehicle_id, cleared) ==
    [store |-> IF cleared THEN CacheClear(s) ELSE s, raised |-> TRUE]

\* invalidate_vehicle_cache when cache.clear() raises: "except Exception" logs
\* the error and the function returns normally; the backend may or may not
\* have emptied the store before it raised.
invalidate_vehicle_cache_clear_raises(s, vehicle_id, cleared) ==
    [store |-> IF cleared THEN CacheClear(s) ELSE s, raised |-> FALSE]

VehicleWriteOps == {"create_vehicle", "update_vehicle", "delete_vehicle", "restore_vehicle"}

\* create/update/delete/restore with a successful commit during which
\* cache.clear() raises.  An exception leaving invalidate_vehicle_cache would be
\* caught by the handler's "except Exception": rollback after the commit, 500.
CommittedWriteClearRaises(op, id, cleared) ==
    LET r == invalidate_vehicle_cache_clear_raises(
                 store, IF op = "create_vehicle" THEN PyNone ELSE PyInt(id), cleared)
        success == IF op = "create_vehicle" THEN 201 ELSE 200
    IN  /\ Serve
        /\ IF op = "create_vehicle" THEN id = NextId(catalog) ELSE catalog[id].exists
        /\ op = "update_vehicle" => catalog[id].rev < MaxRev
        /\ catalog' = CASE op = "create_vehicle" -> [catalog EXCEPT ![id] = NewVehicle]
                        [] op = "update_vehicle" -> [catalog EXCEPT ![id].rev = @ + 1]
                        [] op = "delete_vehicle" -> [catalog EXCEPT ![id].is_active = FALSE]
                        [] OTHER -> [catalog EXCEPT ![id].is_active = TRUE]
        /\ store' = r.store
        /\ last' = [WriteRecord(op, id, IF r.raised THEN 500 ELSE success, TRUE, TRUE)
                      EXCEPT !.fault = "clear"]
        /\ UNCHANGED <<threshold, reqs, token, login_attempts, verified, now, threads>>

\* POST /admin/cache/clear while cache.clear() raises
clear_cache_clear_raises(cleared) ==
    LET r == invalidate_vehicle_cache_clear_raises(store, PyNone, cleared)
    IN  /\ Serve
        /\ store' = r.store
        /\ last' = [WriteRecord("clear_cache", 0, IF r.raised THEN 500 ELSE 200, FALSE, TRUE)
                      EXCEPT !.fault = "clear"]
        /\ UNCHANGED <<catalog, threshold, reqs, token, login_attempts, verified, now, threads>>

FaultCalls == GenericCalls \cup GetVehiclesCalls
FaultOutcomes(c) ==
    IF c.fn \in Endpoints THEN {Outcome(FALSE, "Tuple", 200)}
    ELSE {Outcome(FALSE, "Dict", 0), Outcome(FALSE, "EmptyDict", 0)}

NextFaults ==
    \/ \E c \in FaultCalls : \E out \in FaultOutcomes(c) : DecoratedCall(c, out)
    \/ \E c \in FaultCalls : \E out \in FaultOutcomes(c) :
          \E fault \in BackendFaults : FailingCall(c, out, fault)
    \/ \E op \in VehicleWriteOps, id \in Ids, cleared \in BOOLEAN :
          CommittedWriteClearRaises(op, id, cleared)
    \/ \E cleared \in BOOLEAN : clear_cache_clear_raises(cleared)
    \/ clear_cache

SpecFaults == Init /\ [][NextFaults]_vars

(***************** a small CACHE_THRESHOLD: filling the store ***************)
\* CACHE_THRESHOLD comes from the environment: int(os.environ.get(..., 500))
SmallThresholds == 1..MaxThreshold

InitCapacity ==
    /\ catalog \in InitialCatalogs
    /\ threshold \in SmallThresholds
    /\ now = 0
    /\ store = warm_cache(<<>>, catalog, 0, threshold)
    /\ last = NoLast
    /\ served = 0
    /\ threads = <<>>
    /\ reqs = <<>>
    /\ token = "none"
    /\ login_attempts = [ip \in ClientIps |-> <<>>]
    /\ verified = [ip \in ClientIps |-> <<>>]

\* Functions returning a dict, wrapped with the three timeouts in use:
\* @cache_vehicles_list() (3600), @cache_vehicle_detail() (7200) and
\* @cache_vehicles_search() (1800)
CapacityCalls ==
    GenericCalls
    \cup {Call("f", "cache_vehicles_list", SEARCH_TIMEOUT, Request("/f", "q=a", <<>>, <<>>), 0)}

NextCapacity ==
    \/ \E c \in CapacityCalls : DecoratedCall(c, Outcome(FALSE, "Dict", 0))
    \/ clear_cache
    \/ Tick

SpecCapacity == InitCapacity /\ [][NextCapacity]_vars

(************* every endpoint of the vehicles blueprint ********************)
\* The admin endpoints that only read: GET /admin/vehicles,
\* GET /admin/vehicles/search, GET /admin/dashboard/stats, GET /admin/cache/stats.
\* Each answers 200, or 500 when its query fails; require_admin answers 401 or
\* 403 before the view runs.
AdminReadOps ==
    {"get_admin_vehicles", "search_admin_vehicles", "get_dashboard_stats", "get_cache_stats"}
AdminStatuses == {200, 401, 403, 500}
AdminRead(op, status) ==
    /\ Serve
    /\ last' = WriteRecord(op, 0, status, FALSE, FALSE)
    /\ UNCHANGED <<catalog, store, threshold, reqs, token, login_attempts, verified, now, threads>>

NextHeaders ==
    \/ \E c \in EndpointCalls : \E out \in Outcomes(c) : DecoratedCall(c, out)
    \/ \E op \in AdminReadOps, status \in AdminStatuses : AdminRead(op, status)
    \/ \E outcome \in WriteOutcomes : create_vehicle(outcome)
    \/ \E id \in Ids, outcome \in WriteOutcomes : update_vehicle(id, outcome)
    \/ \E id \in Ids, outcome \in {"ok", "commit_error"} : delete_vehicle(id, outcome)
    \/ \E id \in Ids, outcome \in {"ok", "commit_error"} : restore_vehicle(id, outcome)
    \/ clear_cache

SpecHeaders == Init /\ [][NextHeaders]_vars

(******* concurrent requests, with cache.set in its own two steps **********)
\* SimpleCache.set first scans for what to evict (_prune: when over the
\* threshold, the list of keys whose entry has expired), then removes and
\* inserts; nothing holds a lock between the two, nor around them.
InFlight(pc, c, result, toremove) ==
    [pc |-> pc, c |-> c, result |-> result, vehicle_id |-> PyNone, toremove |-> toremove]

\* Two functions returning a dict, wrapped with @cache_vehicles_list() (3600)
\* and @cache_vehicles_search() (1800)
BackendCalls == {c \in CapacityCalls : c.dec = "cache_vehicles_list"}

\* CACHE_THRESHOLD=1 in the environment
InitBackend ==
    /\ catalog \in InitialCatalogs
    /\ threshold = 1
    /\ now = 0
    /\ store = warm_cache(<<>>, catalog, 0, threshold)
    /\ last = NoLast
    /\ served = 0
    /\ threads = [t \in Threads |-> Idle]
    /\ reqs = <<>>
    /\ token = "none"
    /\ login_attempts = [ip \in ClientIps |-> <<>>]
    /\ verified = [ip \in ClientIps |-> <<>>]

\* toremove = [k for k, (expires, _) in self._cache.items() if expires < now]
ExpiredKeys(s, t) == {s[i].key : i \in {j \in 1..Len(s) : s[j].expires < t}}

\* cache.set, first half: _prune()'s scan, only when over the threshold
SetScan(t) ==
    /\ threads[t].pc = "computed"
    /\ Cacheable(threads[t].result)
    /\ threads' = [threads EXCEPT ![t] =
                      InFlight("scanned", threads[t].c, threads[t].result,
                               IF Len(store) > threshold THEN ExpiredKeys(store, now) ELSE {})]
    /\ UNCHANGED <<catalog, store, threshold, reqs, token, login_attempts, verified, now, last, served>>

\* cache.set, second half: pop the scanned keys, _remove_older() while still
\* over the threshold, then self._cache[key] = (expires, value)
SetInsert(t) ==
    LET key == CacheKey(threads[t].c.dec, threads[t].c.req)
        popped == SelectSeq(store, LAMBDA e : e.key \notin threads[t].toremove)
        pruned == IF Len(popped) > threshold THEN RemoveOlder(popped, threshold) ELSE popped
        entry == Entry(key, now + threads[t].c.timeout, threads[t].result)
    IN  /\ threads[t].pc = "scanned"
        /\ store' = IF HasKey(pruned, key)
                    THEN [pruned EXCEPT ![IndexOf(pruned, key)] = entry]
                    ELSE Append(pruned, entry)
        /\ threads' = [threads EXCEPT ![t] = Idle]
        /\ UNCHANGED <<catalog, threshold, reqs, token, login_attempts, verified, now, last, served>>

NextBackend ==
    \/ \E t \in Threads, c \in BackendCalls : ReadLookup(t, c)
    \/ \E t \in Threads : ReadCompute(t)
    \/ \E t \in Threads : SetScan(t)
    \/ \E t \in Threads : SetInsert(t)
    \/ Tick

SpecBackend == InitBackend /\ [][NextBackend]_vars

(************** wrapped functions that answer with an error ****************)
\* What a wrapped handler can answer: a (response, status) pair or a response
\* object, with status 200, 404 or 500
HandlerStatuses == {200, 404, 500}
HandlerOutcomes(c) ==
    IF c.fn \in Endpoints THEN Outcomes(c)
    ELSE {Outcome(FALSE, sh, st) : sh \in {"Tuple", "Response"}, st \in HandlerStatuses}

NextErrors ==
    \/ \E c \in GenericCalls \cup GetVehicleCalls :
          \E out \in HandlerOutcomes(c) : DecoratedCall(c, out)
    \/ \E id \in Ids : delete_vehicle(id, "ok")
    \/ Tick

SpecErrors == Init /\ [][NextErrors]_vars

(********************* require_admin: who may write ************************)
\* What a client can present: no Authorization header, a token that does not
\* verify, an expired token, or a verified token whose role claim is "user" or
\* "admin"
Tokens == {"none", "invalid", "expired", "user", "admin"}

\* Variant: any verified token is admitted, the role claim is not looked at
require_admin_any_role(tok) ==
    IF tok \in {"none", "invalid", "expired"} THEN [admitted |-> FALSE, status |-> 401]
    ELSE [admitted |-> TRUE, status |-> 0]

\* @require_admin(): jwt_required() answers 401 through the loaders of main.py
\* for a missing, invalid or expired token; claims.get('role') != 'admin' is 403
require_admin(tok) ==
    IF tok \in {"none", "invalid", "expired"} THEN [admitted |-> FALSE, status |-> 401]
    ELSE IF tok # "admin" THEN [admitted |-> FALSE, status |-> 403]
    ELSE [admitted |-> TRUE, status |-> 0]

\* The client takes another Authorization for its next requests
Present(tok) ==
    /\ tok # token
    /\ token' = tok
    /\ UNCHANGED <<catalog, store, threshold, now, last, served, threads, reqs, login_attempts, verified>>

\* A view function behind @require_admin(): its body runs only when admitted
Guarded(op, id, body) ==
    IF require_admin(token).admitted
    THEN body
    ELSE /\ Serve
         /\ last' = WriteRecord(op, id, require_admin(token).status, FALSE, FALSE)
         /\ UNCHANGED <<catalog, store, threshold, reqs, token, login_attempts, verified, now, threads>>

GuardedOps == VehicleWriteOps \cup {"clear_cache", "get_cache_stats"}

NextAuth ==
    \/ \E tok \in Tokens : Present(tok)
    \/ \E outcome \in WriteOutcomes : Guarded("create_vehicle", 0, create_vehicle(outcome))
    \/ \E id \in Ids, outcome \in WriteOutcomes :
          Guarded("update_vehicle", id, update_vehicle(id, outcome))
    \/ \E id \in Ids, outcome \in {"ok", "commit_error"} :
          Guarded("delete_vehicle", id, delete_vehicle(id, outcome))
    \/ \E id \in Ids, outcome \in {"ok", "commit_error"} :
          Guarded("restore_vehicle", id, restore_vehicle(id, outcome))
    \/ Guarded("clear_cache", 0, clear_cache)
    \/ \E status \in {200, 500} : Guarded("get_cache_stats", 0, AdminRead("get_cache_stats", status))

SpecAuth == Init /\ [][NextAuth]_vars

(****** key derivation: requests that differ in how they are written ******)
\* request.query_string: the parameters as the client wrote them, "&" between
RECURSIVE QueryString(_)
QueryString(params) ==
    IF Len(params) = 0 THEN ""
    ELSE IF Len(params) = 1 THEN params[1][1] \o "=" \o params[1][2]
    ELSE params[1][1] \o "=" \o params[1][2] \o "&" \o QueryString(Tail(params))

\* The same two query parameters written in either order, or none
ParamOrders ==
    {<<>>, <<<<"marca", "X">>, <<"page", "2">>>>, <<<<"page", "2">>, <<"marca", "X">>>>}
\* Positional arguments: one holding the delimiter, the same text as two
\* arguments, and one that reads like a keyword argument
ArgLists == {<<"a|b">>, <<"a", "b">>, <<"id=1">>}
\* Keyword arguments: one alone, and the same two passed in either order
KwargOrders ==
    {<<<<"id", "1">>>>, <<<<"id", "1">>, <<"vehicle_id", "1">>>>,
     <<<<"vehicle_id", "1">>, <<"id", "1">>>>}

KeyRequests ==
    {Request("/f", QueryString(ps), <<>>, <<>>) : ps \in ParamOrders}
    \cup {Request("/f", "", args, <<>>) : args \in ArgLists}
    \cup {Request("/f", "", <<>>, kw) : kw \in KwargOrders}
KeyCalls ==
    {Call("f", "cache_vehicles_list", LIST_TIMEOUT, req, 0) : req \in KeyRequests}
    \cup {Call("f", "cache_vehicle_detail", DETAIL_TIMEOUT, req, 1)
            : req \in {r \in KeyRequests : Len(r.kwargs) = 2}}

\* One request served by a decorated function f that returns a dict; the
\* request is remembered next to the one before it.
TracedCall(c) ==
    LET out == Outcome(FALSE, "Dict", 0)
        r == decorated_function(c, out, store, catalog, now, threshold)
    IN  /\ served < MaxKeyCalls
        /\ Serve
        /\ store' = r.store
        /\ last' = ReadRecord(c, r, out)
        /\ reqs' = IF Len(reqs) = 0 THEN <<c.req>> ELSE <<reqs[Len(reqs)], c.req>>
        /\ UNCHANGED <<catalog, threshold, token, login_attempts, verified, now, threads>>

NextKeys ==
    \/ \E c \in KeyCalls : TracedCall(c)
    \/ Tick

SpecKeys == Init /\ [][NextKeys]_vars

(********* detail keys: where the decorator takes the vehicle id from *******)
\* Calls of a function wrapped by cache_vehicle_detail with the id passed
\* positionally, as vehicle_id=, as id=, in several of these ways at once, or
\* not at all; and calls of the same requests through cache_vehicles_list.
DetailRequests ==
    {Request("/f", "", <<ToString(i)>>, <<>>) : i \in Ids}
    \cup {Request("/f", "", <<>>, <<<<"vehicle_id", ToString(i)>>>>) : i \in Ids}
    \cup {Request("/f", "", <<>>, <<<<"id", ToString(i)>>>>) : i \in Ids}
    \cup {Request("/f", "", <<>>, <<<<"vehicle_id", "1">>, <<"id", "2">>>>),
          Request("/f", "", <<"2">>, <<<<"vehicle_id", "1">>>>),
          Request("/f", "", <<>>, <<>>)}
\* The vehicle the call is about, as a number (0: none)
IdNumber(text) == IF \E i \in Ids : ToString(i) = text
                  THEN CHOOSE i \in Ids : ToString(i) = text ELSE 0
DetailKeyCalls ==
    {Call("f", "cache_vehicle_detail", DETAIL_TIMEOUT, req, IdNumber(DetailId(req)))
       : req \in DetailRequests}
    \cup {Call("f", "cache_vehicles_list", LIST_TIMEOUT, req, 0)
            : req \in {r \in DetailRequests : Len(r.kwargs) < 2}}

NextDetail ==
    \/ \E c \in DetailKeyCalls : TracedCall(c)
    \/ Tick

SpecDetail == Init /\ [][NextDetail]_vars

(****************** the requests warm_cache could serve ********************)
\* The public list requests: GET /api/vehicles with the queries of the model
\* and with the text warm_cache derives its key from
WarmQueries == ListQueries \cup {"active=True"}
PublicListCalls ==
    {Call("get_vehicles", "cache_vehicles_list", LIST_TIMEOUT,
          Request("/api/vehicles", q, <<>>, <<>>), 0) : q \in WarmQueries}
    \cup SearchCalls \cup CategoryCalls

(************************ login rate limiting ******************************)
WindowSeconds == WINDOW_MINUTES * 60
HalfWindow == WindowSeconds \div 2

\* What the rest of login does once the rate limit let the request through:
\* request.get_json() fails (500 from "except Exception"), the payload fails
\* LoginSchema (400); or the attempt is recorded and then the user lookup fails
\* (500), the credentials are wrong or the user inactive (401), or the login
\* succeeds (200).
LoginOutcomes == {"bad_json", "invalid", "db_error", "bad_credentials", "ok"}
Recorded(outcome) == outcome \in {"db_error", "bad_credentials", "ok"}
LoginStatus(outcome) ==
    CASE outcome = "bad_json" -> 500
      [] outcome = "invalid" -> 400
      [] outcome = "db_error" -> 500
      [] outcome = "bad_credentials" -> 401
      [] OTHER -> 200

\* check_rate_limit: [attempt_time for ... if attempt_time > window_start]
RecentAttempts(attempts, t) == SelectSeq(attempts, LAMBDA a : a > t - WindowSeconds)

\* Variant: the request is let through while no more than max_attempts are recorded
check_rate_limit_one_more(attempts, t) ==
    [attempts |-> RecentAttempts(attempts, t),
     allowed |-> ~(Len(RecentAttempts(attempts, t)) > MAX_ATTEMPTS)]
\* check_rate_limit(ip_address): the list it leaves and what it returns
check_rate_limit(attempts, t) ==
    [attempts |-> RecentAttempts(attempts, t),
     allowed |-> ~(Len(RecentAttempts(attempts, t)) >= MAX_ATTEMPTS)]

\* record_login_attempt(ip_address)
record_login_attempt(attempts, t) == Append(attempts, t)

LoginRecord(ip, status) == [WriteRecord("login", 0, status, FALSE, FALSE) EXCEPT !.ip = ip]

\* Variant: a request turned away with 429 is recorded as an attempt too
login_records_rejections(client_ip, outcome) ==
    LET chk == check_rate_limit(login_attempts[client_ip], now)
    IN  /\ served < MaxLogins
        /\ served' = served + 1
        /\ IF ~chk.allowed
           THEN /\ login_attempts' = [login_attempts EXCEPT ![client_ip] =
                                         record_login_attempt(chk.attempts, now)]
                /\ verified' = verified
                /\ last' = LoginRecord(client_ip, 429)
           ELSE IF ~Recorded(outcome)
           THEN /\ login_attempts' = [login_attempts EXCEPT ![client_ip] = chk.attempts]
                /\ verified' = verified
                /\ last' = LoginRecord(client_ip, LoginStatus(outcome))
           ELSE /\ login_attempts' = [login_attempts EXCEPT ![client_ip] =
                                         record_login_attempt(chk.attempts, now)]
                /\ verified' = [verified EXCEPT ![client_ip] = Append(@, now)]
                /\ last' = LoginRecord(client_ip, LoginStatus(outcome))
        /\ UNCHANGED <<catalog, store, threshold, reqs, token, now, threads>>

\* POST /api/auth/login from client_ip
login(client_ip, outcome) ==
    LET chk == check_rate_limit(login_attempts[client_ip], now)
    IN  /\ served < MaxLogins
        /\ served' = served + 1
        /\ IF ~chk.allowed
           THEN /\ login_attempts' = [login_attempts EXCEPT ![client_ip] = chk.attempts]
                /\ verified' = verified
                /\ last' = LoginRecord(client_ip, 429)
           ELSE IF ~Recorded(outcome)
           THEN /\ login_attempts' = [login_attempts EXCEPT ![client_ip] = chk.attempts]
                /\ verified' = verified
                /\ last' = LoginRecord(client_ip, LoginStatus(outcome))
           ELSE /\ login_attempts' = [login_attempts EXCEPT ![client_ip] =
                                         record_login_attempt(chk.attempts, now)]
                /\ verified' = [verified EXCEPT ![client_ip] = Append(@, now)]
                /\ last' = LoginRecord(client_ip, LoginStatus(outcome))
        /\ UNCHANGED <<catalog, store, threshold, reqs, token, now, threads>>

\* Half a window of time passes
Elapse ==
    /\ now < MaxElapse * HalfWindow
    /\ now' = now + HalfWindow
    /\ UNCHANGED <<catalog, store, threshold, reqs, token, login_attempts, verified, last,
                   served, threads>>

NextLogin ==
    \/ \E client_ip \in ClientIps, outcome \in LoginOutcomes : login(client_ip, outcome)
    \/ Elapse

SpecLogin == Init /\ [][NextLogin]_vars

(******************* soft delete and restore under cached reads ************)
\* The public reads as they answer, and f returning the same content as a
\* dict, which the decorators do store
SoftDeleteOutcomes(c) ==
    IF c.fn \in Endpoints THEN {Outcome(FALSE, "Tuple", 200)}
    ELSE {Outcome(FALSE, "Dict", 0)}

NextSoftDelete ==
    \/ \E c \in EndpointCalls \cup GenericCalls :
          \E out \in SoftDeleteOutcomes(c) : DecoratedCall(c, out)
    \/ \E id \in Ids : delete_vehicle(id, "ok")
    \/ \E id \in Ids : restore_vehicle(id, "ok")
    \/ Tick

SpecSoftDelete == Init /\ [][NextSoftDelete]_vars

(************** logins handled concurrently, step by step ******************)
\* A login in flight: where it stands, its client IP and the list
\* check_rate_limit has built but not yet assigned
LoginThread(pc, ip, kept) == [pc |-> pc, ip |-> ip, kept |-> kept]
LoginIdle == LoginThread("idle", "", <<>>)

InitLoginConcurrent ==
    /\ catalog = [i \in Ids |-> NoVehicle]
    /\ threshold = CACHE_THRESHOLD
    /\ now = 0
    /\ store = warm_cache(<<>>, catalog, 0, threshold)
    /\ last = NoLast
    /\ served = 0
    /\ threads = [t \in Threads |-> LoginIdle]
    /\ reqs = <<>>
    /\ token = "none"
    /\ login_attempts = [ip \in ClientIps |-> <<>>]
    /\ verified = [ip \in ClientIps |-> <<>>]

\* check_rate_limit, the list comprehension: reads login_attempts[ip]
CheckFilter(t, ip) ==
    /\ threads[t].pc = "idle"
    /\ served < MaxLogins
    /\ served' = served + 1
    /\ threads' = [threads EXCEPT ![t] =
                      LoginThread("filtered", ip, RecentAttempts(login_attempts[ip], now))]
    /\ UNCHANGED <<catalog, store, threshold, reqs, token, login_attempts, verified, now, last>>

\* check_rate_limit, the assignment login_attempts[ip] = [...] and the test
\* against max_attempts; a refused login is answered 429
CheckAssign(t) ==
    /\ threads[t].pc = "filtered"
    /\ login_attempts' = [login_attempts EXCEPT ![threads[t].ip] = threads[t].kept]
    /\ IF Len(threads[t].kept) >= MAX_ATTEMPTS
       THEN /\ threads' = [threads EXCEPT ![t] = LoginIdle]
            /\ last' = LoginRecord(threads[t].ip, 429)
       ELSE /\ threads' = [threads EXCEPT ![t].pc = "allowed"]
            /\ last' = last
    /\ UNCHANGED <<catalog, store, threshold, reqs, token, verified, now, served>>

\* schema.load, then record_login_attempt and the credential check
ValidateAndRecord(t, outcome) ==
    /\ threads[t].pc = "allowed"
    /\ IF Recorded(outcome)
       THEN /\ login_attempts' = [login_attempts EXCEPT ![threads[t].ip] =
                                     record_login_attempt(@, now)]
            /\ verified' = [verified EXCEPT ![threads[t].ip] = Append(@, now)]
       ELSE UNCHANGED <<login_attempts, verified>>
    /\ last' = LoginRecord(threads[t].ip, LoginStatus(outcome))
    /\ threads' = [threads EXCEPT ![t] = LoginIdle]
    /\ UNCHANGED <<catalog, store, threshold, reqs, token, now, served>>

NextLoginConcurrent ==
    \/ \E t \in Threads, ip \in ClientIps : CheckFilter(t, ip)
    \/ \E t \in Threads : CheckAssign(t)
    \/ \E t \in Threads, outcome \in {"invalid", "bad_credentials"} : ValidateAndRecord(t, outcome)

SpecLoginConcurrent == InitLoginConcurrent /\ [][NextLoginConcurrent]_vars

(***************************************************************************)
(*                              The claims                                 *)
(***************************************************************************)
\* The decorated call that has the key k, and what any such call would do now
CallsWithKey(k) == {c \in Calls : CacheKey(c.dec, c.req) = k}
WouldInvoke(c) ==
    \A out \in Outcomes(c) :
        LET r == decorated_function(c, out, store, catalog, now, threshold)
        IN  r.invoked /\ ~r.hit
IsRequest == served' = served + 1

C4_HitWithinTimeoutMissAfter ==
    [][(/\ IsRequest
        /\ last.op = "f" /\ last.invoked /\ ~last.f_raised
        /\ last.f_result.shape \in {"List", "Dict"}
        /\ last'.op = "f" /\ last'.key = last.key)
       => IF now - last.at < last.timeout
          THEN last'.hit /\ ~last'.invoked /\ last'.result = last.f_result
          ELSE last'.invoked /\ ~last'.hit]_vars
\* A hit on an entry a decorated call stored a tick or more earlier
C4_Witness ==
    /\ last.op = "f" /\ last.hit /\ last.result.shape \in {"List", "Dict"}
    /\ last.at >= TickLen
    /\ \E i \in 1..Len(store) : /\ store[i].key = last.key
                                /\ store[i].expires - last.timeout < last.at

\* C8: an empty or falsy result of f (None, [], {}, 0, '') is returned to the
\* caller and not stored: the store holds no live entry for the key and a
\* following call with that key invokes f again.
C8_FalsyResultNotStored ==
    (last.op = "f" /\ last.invoked /\ ~last.f_raised /\ ~Truthy(last.f_result))
    => /\ last.result = last.f_result
       /\ ~IsHit(store, last.key, now)
       /\ \A c \in CallsWithKey(last.key) : WouldInvoke(c)
\* f returned an empty list through cache_vehicle_detail
C8_Witness ==
    /\ last.op = "f" /\ last.dec = "cache_vehicle_detail"
    /\ last.invoked /\ last.f_result.shape = "EmptyList"

\* C10: when f raises, the caller of the decorated function gets the exception,
\* the store is left exactly as it was, and the next call with that key
\* invokes f again.
C10_ExceptionPropagatesUncached ==
    [][(IsRequest /\ last'.f_raised)
       => /\ last'.raised
          /\ store' = store
          /\ \A c \in CallsWithKey(last'.key) : \A out \in Outcomes(c) :
                 decorated_function(c, out, store', catalog', now', threshold').invoked]_vars
\* f raised while the store held entries
C10_Witness == last.op = "f" /\ last.raised /\ Len(store) > 1

\* What the endpoint op computes for vehicle id from the catalog as it is now
Fresh(op, id) == Run([fn |-> op, id |-> id], catalog, Outcome(FALSE, "Tuple", 200))
VehicleWrites == {"create_vehicle", "update_vehicle", "delete_vehicle", "restore_vehicle"}
ImageWrites == {"upload_file", "cdn_upload_file", "delete_image", "delete_cdn_image"}

C5_EndpointsServedFromCache ==
    (last.op \in Endpoints /\ last.status = 200 /\ now - last.at < last.timeout)
    => /\ IsHit(store, last.key, now)
       /\ \A c \in CallsWithKey(last.key) : ~WouldInvoke(c)

\* C6: a create, update, delete or restore that did not commit (400, 404, or a
\* commit that raised, 500) does not invalidate: it leaves the store and the
\* catalog as they were.
C6_NoInvalidationWithoutCommit ==
    [][(IsRequest /\ last'.op \in VehicleWrites /\ ~last'.committed)
       => /\ last'.status \in {400, 404, 500}
          /\ ~last'.invalidated
          /\ store' = store
          /\ catalog' = catalog]_vars
\* An update whose commit raised, with the store still holding its entry
C6_Witness ==
    /\ last.op = "update_vehicle" /\ last.status = 500 /\ ~last.committed
    /\ last.before > 0 /\ Len(store) = last.before

\* C7: every create, update, delete and restore that commits has invalidated the
\* cache when it answers, and the list read that follows a committed create
\* runs the handler and its result contains the new vehicle.
C7_CommittedWritesInvalidate ==
    [][/\ (IsRequest /\ last'.op \in VehicleWrites /\ last'.committed)
          => (last'.invalidated /\ store' = <<>>)
       /\ (/\ IsRequest
           /\ last.op = "create_vehicle" /\ last.committed
           /\ last'.op = "get_vehicles" /\ last'.status # 500)
          => (last'.invoked /\ last'.result.body[last.id].present)]_vars
\* A committed create that found a cached list result in the store
C7_Witness ==
    /\ last.op = "create_vehicle" /\ last.committed /\ last.status = 201
    /\ last.before > 0 /\ store = <<>>
    /\ Visible(catalog, last.id)

\* C9: on a miss, every non-empty result that is a mapping, a sequence (a
\* (body, status) tuple included) or a response object is stored under the key
\* with the decorator's timeout, so that the next call is a hit.
C9_EveryCacheableShapeStored ==
    (/\ last.op = "f" /\ last.invoked /\ ~last.f_raised
     /\ last.f_result.shape \in {"Dict", "List", "Tuple", "Response"})
    => \E i \in 1..Len(store) :
           /\ store[i] = Entry(last.key, last.at + last.timeout, last.f_result)
           /\ IsHit(store, last.key, last.at)

\* What the entry e would hold had it been computed from the catalog as it is now
FreshEntryValue(e) ==
    IF e.key = WarmKey THEN WarmValue(catalog)
    ELSE LET c == CHOOSE c \in Calls : CacheKey(c.dec, c.req) = e.key
         IN  Run(c, catalog, Outcome(FALSE, e.value.shape, e.value.status))
NoWriteAwaitsInvalidation == \A t \in Threads : threads[t].pc # "committed"

\* C3: under every interleaving of reads (lookup, compute, set) and writes
\* (commit, clear), once the invalidation of every committed write has
\* completed the store holds no entry computed from the catalog as it was
\* before the write.
C3_NoStaleEntryAfterInvalidation ==
    NoWriteAwaitsInvalidation
    => \A i \in 1..Len(store) : store[i].value = FreshEntryValue(store[i])

\* The parameters a query string carries, and the keyword pairs of a call, as sets
ParamsOf(query) == CHOOSE ps \in ParamOrders : QueryString(ps) = query
Pairs(seq) == {seq[i] : i \in 1..Len(seq)}
\* The live entry under the key of the previous request is there to be served
PreviousEntryLive == last.invoked /\ IsHit(store, last.key, now)
TracedPair == IsRequest /\ Len(reqs') = 2 /\ last'.dec = last.dec

\* C11: a request whose query string carries the parameters of the previous
\* request in another order is served from the entry the previous one stored.
C11_PermutedQueryServedFromCache ==
    [][(/\ TracedPair
        /\ PreviousEntryLive
        /\ reqs'[1].path = reqs'[2].path
        /\ reqs'[1].args = reqs'[2].args /\ reqs'[1].kwargs = reqs'[2].kwargs
        /\ Pairs(ParamsOf(reqs'[1].query)) = Pairs(ParamsOf(reqs'[2].query)))
       => last'.hit /\ last'.key = last.key]_vars

\* C12: a call with the same path, query string and positional arguments as the
\* previous one and the same keyword pairs in any order derives the same key,
\* and so is served from the entry the previous one stored.
C12_KwargOrderSameKey ==
    [][(/\ TracedPair
        /\ PreviousEntryLive
        /\ reqs'[1].path = reqs'[2].path /\ reqs'[1].query = reqs'[2].query
        /\ reqs'[1].args = reqs'[2].args
        /\ Pairs(reqs'[1].kwargs) = Pairs(reqs'[2].kwargs))
       => last'.hit /\ last'.key = last.key]_vars
C12_Witness ==
    /\ Len(reqs) = 2 /\ served = 2
    /\ reqs[1].kwargs = <<<<"vehicle_id", "1">>, <<"id", "1">>>>
    /\ reqs[2].kwargs = <<<<"id", "1">>, <<"vehicle_id", "1">>>>
    /\ last.hit /\ ~last.invoked

\* C13: a call served from the entry the previous call stored has the previous
\* call's input: the same path, query string, positional arguments and keyword
\* pairs; two different inputs never share a key.
C13_DifferentInputsDifferentKeys ==
    [][(TracedPair /\ PreviousEntryLive /\ last'.hit /\ last'.key = last.key)
       => /\ reqs'[1].path = reqs'[2].path /\ reqs'[1].query = reqs'[2].query
          /\ reqs'[1].args = reqs'[2].args
          /\ Pairs(reqs'[1].kwargs) = Pairs(reqs'[2].kwargs)]_vars

\* C14: a read during which cache.get or cache.set raises is treated as a miss:
\* the wrapped function is invoked and its result returned, no exception
\* reaches the caller.
C14_ReadsFailOpen ==
    (last.fault \in BackendFaults /\ ~last.f_raised)
    => (last.invoked /\ ~last.raised /\ last.result = last.f_result)

\* C15: a committed create/update/delete/restore during which cache.clear()
\* raises keeps its commit and answers its success status (201 for create, 200
\* for the others).
C15_ClearFailureDoesNotFailWrite ==
    [][(IsRequest /\ last'.fault = "clear" /\ last'.op \in VehicleWriteOps)
       => /\ last'.committed /\ catalog'[last'.id].exists
          /\ last'.op = "delete_vehicle" => ~catalog'[last'.id].is_active
          /\ last'.op = "restore_vehicle" => catalog'[last'.id].is_active
          /\ last'.op = "update_vehicle" => catalog'[last'.id].rev = catalog[last'.id].rev + 1
          /\ last'.status = IF last'.op = "create_vehicle" THEN 201 ELSE 200]_vars
C15_Witness ==
    /\ last.fault = "clear" /\ last.op = "update_vehicle" /\ last.committed
    /\ last.status = 200 /\ Len(store) > 0 /\ catalog[last.id].rev = 1

\* C16: POST /admin/cache/clear answers 500 when clearing the store raised, and
\* answers 200 only when the store is empty afterwards.
C16_ClearEndpointSurfacesFailure ==
    last.op = "clear_cache"
    => /\ last.fault = "clear" => last.status = 500
       /\ last.status = 200 => store = <<>>

\* C17: the store never holds more entries than the configured threshold.
C17_StoreWithinThreshold == Len(store) <= threshold

\* C18: when the store is full and the previous request inserted its newest
\* entry, storing a result under a new key evicts the earliest-inserted entry
\* (which is then also the least recently used): the store keeps its other
\* entries in order and the new one, as in A, B, C with threshold 2 ending as
\* B, C.
C18_EvictsEarliestInserted ==
    [][(/\ IsRequest /\ last'.invoked /\ ~HasKey(store, last'.key) /\ HasKey(store', last'.key)
        /\ Len(store) = threshold
        /\ last.invoked /\ last.key = store[Len(store)].key)
       => /\ Len(store') = threshold
          /\ \A i \in 1..(threshold - 1) : store'[i] = store[i + 1]
          /\ store'[threshold].key = last'.key]_vars

\* C19: Cache-Control: public and Expires go only on status-200 responses of
\* the public read endpoints, never on a response with another status, of an
\* admin-guarded endpoint or of a write endpoint.
C19_PublicHeadersOnlyOnPublicReads ==
    last.headers.cache_control_public => (last.status = 200 /\ last.op \in Endpoints)

\* C20: on the response of a cached read endpoint the max-age of Cache-Control
\* equals the timeout the endpoint's decorator stores results with.
C20_MaxAgeEqualsTimeout ==
    (last.op \in Endpoints /\ last.headers.cache_control_public)
    => last.headers.max_age = last.timeout

\* C21: a request to the cache-clear or cache-status endpoint or to a vehicle
\* write endpoint by a client that presents anything but a verified admin token
\* is answered 401 or 403 and leaves catalog and store as they were; the store
\* is emptied by a request only for an admin.
C21_OnlyAdminWritesOrClears ==
    [][(IsRequest /\ last'.op \in GuardedOps /\ token # "admin")
       => /\ last'.status \in {401, 403}
          /\ ~last'.committed /\ ~last'.invalidated
          /\ catalog' = catalog /\ store' = store]_vars
C21_Witness ==
    /\ last.op = "clear_cache" /\ token = "user" /\ last.status = 403
    /\ Len(store) > 0 /\ served > 1

\* C22: the expiry check of an eviction and the removal it leads to are one
\* critical section, so no request acts on a store another request is halfway
\* through changing: an entry that a set removes as expired is expired in the
\* store the removal is applied to.
C22_StoreOperationsSynchronized ==
    [][\A t \in Threads :
          (threads[t].pc = "scanned" /\ threads'[t].pc = "idle")
          => \A i \in 1..Len(store) :
                store[i].key \in threads[t].toremove => store[i].expires < now]_vars

\* C23: no entry of the store holds an error result: a result with status 404
\* or 500, pair or response object, is never written.
C23_ErrorResultNeverStored ==
    \A i \in 1..Len(store) : store[i].value.status \notin {404, 500}

\* The entity identifier of a call: the first positional argument, else the
\* keyword vehicle_id, else the keyword id
EntityId(req) ==
    IF req.args # <<>> THEN Head(req.args)
    ELSE IF \E i \in 1..Len(req.kwargs) : req.kwargs[i][1] = "vehicle_id"
    THEN req.kwargs[CHOOSE i \in 1..Len(req.kwargs) : req.kwargs[i][1] = "vehicle_id"][2]
    ELSE IF \E i \in 1..Len(req.kwargs) : req.kwargs[i][1] = "id"
    THEN req.kwargs[CHOOSE i \in 1..Len(req.kwargs) : req.kwargs[i][1] = "id"][2]
    ELSE "None"

\* C24: a key of cache_vehicle_detail is vehicle_detail_<id>_<hash> with <id>
\* the entity identifier of the call; a key of cache_vehicles_list is
\* vehicles_list_<hash>; two consecutive calls share a key only if they go
\* through the same decorator and, for detail calls, are about the same id.
C24_DetailKeyCarriesEntityId ==
    [][(IsRequest /\ last'.op = "f" /\ Len(reqs') > 0)
       => LET req == reqs'[Len(reqs')]
          IN  /\ last'.dec = "cache_vehicle_detail"
                 => last'.key = "vehicle_detail_" \o EntityId(req) \o "_"
                                  \o generate_cache_key(req)
              /\ last'.dec = "cache_vehicles_list"
                 => last'.key = "vehicles_list_" \o generate_cache_key(req)
              /\ (Len(reqs') = 2 /\ last'.key = last.key)
                 => /\ last'.dec = last.dec
                    /\ last'.dec = "cache_vehicle_detail"
                       => EntityId(reqs'[1]) = EntityId(reqs'[2])]_vars
C24_Witness ==
    /\ Len(reqs) = 2 /\ last.dec = "cache_vehicle_detail"
    /\ reqs[1].kwargs = <<<<"id", "2">>>>
    /\ reqs[2].kwargs = <<<<"vehicle_id", "1">>, <<"id", "2">>>>
    /\ last.key = "vehicle_detail_1_/f?|id=2|vehicle_id=1"
    /\ ~last.hit /\ Len(store) = 3

\* C25: while the entry stored by warm_cache is live, some public list request
\* derives its key and would be served from it, with a value of the shape the
\* handler returns.
C25_WarmEntryServesARequest ==
    \A i \in 1..Len(store) :
        (store[i].key = WarmKey /\ Live(store[i], now))
        => \E c \in PublicListCalls :
              /\ CacheKey(c.dec, c.req) = WarmKey
              /\ CacheGet(store, CacheKey(c.dec, c.req), now).shape
                   = Run(c, catalog, Outcome(FALSE, "Tuple", 200)).shape

\* How many of the times in seq lie in the window that ends at t
InWindow(seq, t) == Len(SelectSeq(seq, LAMBDA a : a > t - WindowSeconds /\ a <= t))
IsLogin == IsRequest /\ last'.op = "login"

\* C26: a login is answered 429, and does not reach credential verification,
\* exactly when 5 logins of its IP reached it within the last 15 minutes; so no
\* 15-minute window holds more than 5 verifications of one IP, and a login of
\* one IP leaves the attempts of every other IP as they were.
C26_RateLimitSequential ==
    [][IsLogin
       => /\ (last'.status = 429) <=> (InWindow(verified[last'.ip], now) >= MAX_ATTEMPTS)
          /\ last'.status = 429 => verified' = verified
          /\ \A ip \in ClientIps \ {last'.ip} :
                login_attempts'[ip] = login_attempts[ip] /\ verified'[ip] = verified[ip]
          /\ \A ip \in ClientIps : \A i \in 1..Len(verified'[ip]) :
                InWindow(verified'[ip], verified'[ip][i]) <= MAX_ATTEMPTS]_vars
C26_Witness ==
    /\ last.op = "login" /\ last.status = 429 /\ last.ip = "10.0.0.1"
    /\ InWindow(verified["10.0.0.1"], now) = MAX_ATTEMPTS
    /\ Len(verified["10.0.0.2"]) = 0

\* C27: a login answered 429 or 400 is not recorded; one answered 200 or 401 is
\* recorded, after a success as after a failure; and a login made more than 15
\* minutes after the last recorded attempt of its IP is never answered 429.
C27_LockoutEndsWithWindow ==
    [][IsLogin
       => LET ip == last'.ip
              kept == RecentAttempts(login_attempts[ip], now)
          IN  /\ last'.status \in {429, 400} => login_attempts'[ip] = kept
              /\ last'.status \in {200, 401} => login_attempts'[ip] = Append(kept, now)
              /\ (\A i \in 1..Len(login_attempts[ip]) :
                     now - login_attempts[ip][i] > WindowSeconds)
                 => last'.status # 429]_vars
C27_Witness ==
    /\ last.op = "login" /\ last.status = 200 /\ last.at > WindowSeconds
    /\ Len(verified[last.ip]) = MAX_ATTEMPTS + 1
    /\ login_attempts[last.ip] = <<last.at>>

\* C28: a soft delete or restore shows in the very next read.  A read answers
\* from the catalog as it stands: a detail read of a vehicle that is deleted
\* (or missing) holds no vehicle, and is a 404 from get_vehicle; a list,
\* search or category read holds exactly the active vehicles.  A delete or
\* restore of an existing vehicle answers 200, whatever the flag was before,
\* sets the flag and leaves the cache empty.
DetailReads == {"get_vehicle"}
ListReads == {"get_vehicles", "search_vehicles", "get_vehicles_by_category"}
C28_SoftDeleteVisibleAtOnce ==
    /\ (last.op \in DetailReads \cup ListReads \cup {"f"} /\ ~last.raised) =>
          /\ \A i \in Ids :
                last.result.body[i].present <=>
                    (Visible(catalog, i) /\ (last.id = 0 \/ last.id = i))
          /\ last.op \in DetailReads =>
                last.status = (IF Visible(catalog, last.id) THEN 200 ELSE 404)
    /\ (last.op \in {"delete_vehicle", "restore_vehicle"} /\ catalog[last.id].exists) =>
          /\ last.status = 200
          /\ store = <<>>
          /\ catalog[last.id].is_active = (last.op = "restore_vehicle")
\* a vehicle is deleted while results computed before are in the cache
C28_Witness ==
    /\ last.op = "delete_vehicle"
    /\ last.status = 200
    /\ last.before >= 2
    /\ store = <<>>
    /\ ~catalog[last.id].is_active

\* C29: requests that miss on the same cache key at the same time do not
\* each invoke the wrapped function: no two requests in flight hold a result
\* computed for the same key.
C29_SingleFlight ==
    \A t1 \in Threads, t2 \in Threads :
        (/\ t1 # t2
         /\ threads[t1].pc = "computed"
         /\ threads[t2].pc = "computed")
        => CacheKey(threads[t1].c.dec, threads[t1].c.req)
               # CacheKey(threads[t2].c.dec, threads[t2].c.req)

\* C30: with logins of one IP interleaved, no more than 5 of them reach
\* credential verification within a window, and once no login is in flight
\* every attempt that was recorded is still in the IP's list.
C30_RateLimitConcurrent ==
    \A ip \in ClientIps :
        /\ InWindow(verified[ip], now) <= MAX_ATTEMPTS
        /\ (\A t \in Threads : threads[t].pc = "idle")
           => Len(login_attempts[ip]) = InWindow(verified[ip], now)

====
